---- MODULE Spec2Model ----
(***************************************************************************)
(* Model of crates/compute_natural_numbers.py: the generator               *)
(* compute_first_n_natural_numbers(n) and the reporter main(), which       *)
(* prints the sequence, an enumerated listing and the sum.                 *)
(*                                                                         *)
(* Standard output is a sequence of lines; every print() call appends the  *)
(* lines its argument renders to.  main() is followed statement by         *)
(* statement through the program counter pc.  The literal n = 8 of main()  *)
(* is DefaultN; the runs explored take n from NValues, which contains it.  *)
(***************************************************************************)
EXTENDS Integers, Sequences, FiniteSets, TLC

\* Largest n explored.
MaxN == 10

\* Magnitude of the most negative n explored.
MaxNeg == 3

\* n = 8 in main().
DefaultN == 8

NValues == (0 - MaxNeg)..MaxN

VARIABLES pc, n, natural_numbers, it, i, num, total, out, exit_status

vars == <<pc, n, natural_numbers, it, i, num, total, out, exit_status>>

\* The exit status of the process: no status while it runs, one once it ended.
Running == {}

Exited(status) == {status}

----------------------------------------------------------------------------
(* Python built-ins used by the program *)

\* range(start, stop) iterated: yields start, start+1, ... while below stop.
RECURSIVE range(_, _)
range(start, stop) ==
    IF start >= stop THEN <<>> ELSE <<start>> \o range(start + 1, stop)

\* range() raises TypeError when an argument is not an integer.
range_raises(start, stop) == ~(start \in Int /\ stop \in Int)

\* list(iterable): the items in iteration order.
list(iterable) == [k \in 1..Len(iterable) |-> iterable[k]]

\* sum(iterable): left fold of + from 0.
RECURSIVE sum_from(_, _, _)
sum_from(s, k, acc) ==
    IF k > Len(s) THEN acc ELSE sum_from(s, k + 1, acc + s[k])

sum(s) == sum_from(s, 1, 0)

Digit == <<"0", "1", "2", "3", "4", "5", "6", "7", "8", "9">>

\* Decimal digits of a natural number, most significant first.
RECURSIVE nat_str(_)
nat_str(k) ==
    IF k < 10 THEN Digit[k + 1] ELSE nat_str(k \div 10) \o Digit[(k % 10) + 1]

\* str(int) / {k} in an f-string.
int_str(k) == IF k < 0 THEN "-" \o nat_str(0 - k) ELSE nat_str(k)

\* ", ".join of the items' reprs, from position k on.
RECURSIVE join_from(_, _)
join_from(s, k) ==
    IF k > Len(s) THEN ""
    ELSE IF k = Len(s) THEN int_str(s[k])
    ELSE int_str(s[k]) \o ", " \o join_from(s, k + 1)

\* repr of a list of ints, as print(natural_numbers) renders it.
list_repr(s) == "[" \o join_from(s, 1) \o "]"

----------------------------------------------------------------------------
(* compute_first_n_natural_numbers *)

\* Variant: a negative count is rejected with an exception.
compute_rejects_negative(m) == m < 0

compute_raises(m) == range_raises(1, m + 1)

\* Variant: the stop bound is n instead of n + 1.
compute_stop_exclusive(m) == list(range(1, m))

\* Variant: counting starts at 0, as range(n) does.
compute_zero_based(m) == list(range(0, m))

\* Variant: the count is taken by magnitude.
compute_by_magnitude(m) == list(range(1, (IF m < 0 THEN 0 - m ELSE m) + 1))

compute_first_n_natural_numbers(m) == list(range(1, m + 1))

----------------------------------------------------------------------------
(* The lines main() prints *)

header_line(m) == "The first " \o int_str(m) \o " natural numbers are:"

\* Variant: the "\n" that opens the string is missing.
formatted_header_no_blank == <<"Formatted output:">>

formatted_header == <<"", "Formatted output:">>

enum_line(idx, v) == int_str(idx) \o ": " \o int_str(v)

\* Variant: the two placeholders are filled in the other order.
sum_lines_swapped(m, t) ==
    <<"", "Sum of first " \o int_str(t) \o " natural numbers: " \o int_str(m)>>

sum_lines(m, t) ==
    <<"", "Sum of first " \o int_str(m) \o " natural numbers: " \o int_str(t)>>

\* First index handed out by enumerate(natural_numbers, 1).
enumerate_start == 1

----------------------------------------------------------------------------
(* main(), one action per statement.  A local of main() holds a placeholder *)
(* of its type (0, the empty list) until its statement assigns it; pc tells *)
(* which locals are bound, and no statement reads one before that.          *)

Init ==
    /\ pc = "generate"
    /\ n \in NValues
    /\ natural_numbers = <<>>
    /\ it = 0
    /\ i = 0
    /\ num = 0
    /\ total = 0
    /\ out = <<>>
    /\ exit_status = Running

\* natural_numbers = compute_first_n_natural_numbers(n)
Generate ==
    /\ pc = "generate"
    /\ IF compute_raises(n)
       THEN /\ pc' = "error"
            /\ exit_status' = Exited(1)
            /\ UNCHANGED natural_numbers
       ELSE /\ pc' = "print_header"
            /\ natural_numbers' = compute_first_n_natural_numbers(n)
            /\ UNCHANGED exit_status
    /\ UNCHANGED <<n, it, i, num, total, out>>

\* print(f"The first {n} natural numbers are:")
PrintHeader ==
    /\ pc = "print_header"
    /\ out' = Append(out, header_line(n))
    /\ pc' = "print_list"
    /\ UNCHANGED <<n, natural_numbers, it, i, num, total, exit_status>>

\* print(natural_numbers)
PrintList ==
    /\ pc = "print_list"
    /\ out' = Append(out, list_repr(natural_numbers))
    /\ pc' = "print_formatted"
    /\ UNCHANGED <<n, natural_numbers, it, i, num, total, exit_status>>

\* print("\nFormatted output:")
PrintFormatted ==
    /\ pc = "print_formatted"
    /\ out' = out \o formatted_header
    /\ pc' = "loop"
    /\ UNCHANGED <<n, natural_numbers, it, i, num, total, exit_status>>

\* Variant: enumerate(natural_numbers) with its default start of 0.
LoopStepZeroBased ==
    /\ pc = "loop"
    /\ it < Len(natural_numbers)
    /\ it' = it + 1
    /\ i' = it
    /\ num' = natural_numbers[it + 1]
    /\ out' = Append(out, enum_line(i', num'))
    /\ UNCHANGED <<pc, n, natural_numbers, total, exit_status>>

\* Variant: the loop consumes the list with pop(0) while it is non-empty.
LoopStepPop ==
    /\ pc = "loop"
    /\ it < Len(natural_numbers)
    /\ it' = it
    /\ i' = i + 1
    /\ num' = Head(natural_numbers)
    /\ natural_numbers' = Tail(natural_numbers)
    /\ out' = Append(out, enum_line(i', num'))
    /\ UNCHANGED <<pc, n, total, exit_status>>

\* for i, num in enumerate(natural_numbers, 1): print(f"{i}: {num}")
LoopStep ==
    /\ pc = "loop"
    /\ it < Len(natural_numbers)
    /\ it' = it + 1
    /\ i' = enumerate_start + it
    /\ num' = natural_numbers[it + 1]
    /\ out' = Append(out, enum_line(i', num'))
    /\ UNCHANGED <<pc, n, natural_numbers, total, exit_status>>

\* Variant: the end-of-iteration test is off by one and never succeeds.
LoopExitOffByOne ==
    /\ pc = "loop"
    /\ it > Len(natural_numbers)
    /\ pc' = "compute_sum"
    /\ UNCHANGED <<n, natural_numbers, it, i, num, total, out, exit_status>>

\* The iterator is exhausted: the for statement ends.
LoopExit ==
    /\ pc = "loop"
    /\ it >= Len(natural_numbers)
    /\ pc' = "compute_sum"
    /\ UNCHANGED <<n, natural_numbers, it, i, num, total, out, exit_status>>

\* total = sum(natural_numbers)
ComputeSum ==
    /\ pc = "compute_sum"
    /\ total' = sum(natural_numbers)
    /\ pc' = "print_sum"
    /\ UNCHANGED <<n, natural_numbers, it, i, num, out, exit_status>>

\* print(f"\nSum of first {n} natural numbers: {total}")
PrintSum ==
    /\ pc = "print_sum"
    /\ out' = out \o sum_lines(n, total)
    /\ pc' = "return"
    /\ UNCHANGED <<n, natural_numbers, it, i, num, total, exit_status>>

\* main() returns and the interpreter exits with status 0.
Return ==
    /\ pc = "return"
    /\ pc' = "done"
    /\ exit_status' = Exited(0)
    /\ UNCHANGED <<n, natural_numbers, it, i, num, total, out>>

Next ==
    \/ Generate
    \/ PrintHeader
    \/ PrintList
    \/ PrintFormatted
    \/ LoopStep
    \/ LoopExit
    \/ ComputeSum
    \/ PrintSum
    \/ Return

Spec == Init /\ [][Next]_vars

\* The interpreter runs the statements one after another without pausing.
FairSpec == Spec /\ WF_vars(Next)

----------------------------------------------------------------------------
(* Positions of main() *)

\* natural_numbers is bound: the call on line 16 has returned.
Generated == pc \notin {"generate", "error"}

\* total is bound: line 27 has run.
Summed == pc \in {"print_sum", "return", "done"}

\* The for statement has ended.
Listed == pc \in {"compute_sum", "print_sum", "return", "done"}

IsPrefix(s, t) == Len(s) <= Len(t) /\ \A k \in 1..Len(s) : s[k] = t[k]

Max(a, b) == IF a >= b THEN a ELSE b

----------------------------------------------------------------------------
(* Properties *)

\* C1: for every N >= 0 the generator returns a sequence of length exactly N
\* whose k-th element (1-indexed) is k, for every k in 1..N.
C1_SequenceIsOneToN ==
    (Generated /\ n >= 0) =>
        /\ Len(natural_numbers) = n
        /\ \A k \in 1..n : natural_numbers[k] = k

C1_Witness == pc = "print_header" /\ n >= 2 /\ Len(natural_numbers) = n

\* C2: for every N >= 0 the total the reporter computes by summing the
\* generated sequence equals N*(N+1)/2.
C2_SumClosedForm ==
    (Summed /\ n >= 0) => total = (n * (n + 1)) \div 2

C2_Witness == pc = "print_sum" /\ n = 4 /\ total = 10

\* The complete report for the current n and sequence, written out in the
\* order the reporter is documented to use.
ExpectedReport ==
    <<"The first " \o int_str(n) \o " natural numbers are:",
      list_repr(natural_numbers),
      "",
      "Formatted output:">>
    \o [j \in 1..Len(natural_numbers) |->
            int_str(j) \o ": " \o int_str(natural_numbers[j])]
    \o <<"",
         "Sum of first " \o int_str(n) \o " natural numbers: "
             \o int_str(sum(natural_numbers))>>

\* C3: the output is emitted in the fixed order header, bracketed list, blank
\* line, "Formatted output:", enumerated lines, blank line, sum line, and
\* nothing else: what has been printed is always a leading part of that
\* report, and the finished run has printed exactly that report.
C3_OutputOrder ==
    Generated =>
        /\ IsPrefix(out, ExpectedReport)
        /\ (pc = "loop" => Len(out) = 4 + it)
        /\ (Listed => Len(out) >= 4 + Len(natural_numbers))
        /\ (pc \in {"return", "done"} => out = ExpectedReport)

C3_Witness == pc = "done" /\ n = 3 /\ Len(out) = 9

\* C4: the enumerated listing has exactly one line per element, in order: the
\* j-th enumerated line is "{j}: {v}" with v the j-th element, and for a
\* generated sequence the index and the value on every line are equal.
C4_EnumeratedLines ==
    /\ pc = "loop" =>
          \A j \in 1..it :
              /\ out[4 + j] = int_str(j) \o ": " \o int_str(natural_numbers[j])
              /\ out[4 + j] = int_str(j) \o ": " \o int_str(j)
    /\ Listed =>
          /\ it = Len(natural_numbers)
          /\ \A j \in 1..Len(natural_numbers) :
                out[4 + j] = int_str(j) \o ": " \o int_str(natural_numbers[j])
          /\ (pc = "done" => Len(out) = 4 + Len(natural_numbers) + 2)

C4_Witness == pc = "loop" /\ it = 3 /\ out[7] = "3: 3"

\* C5: the default run (N = 8) produces the sequence 1..8, exactly the eight
\* enumerated lines "1: 1" .. "8: 8" in that order, and the final line
\* "Sum of first 8 natural numbers: 36".
C5_DefaultRun ==
    (pc = "done" /\ n = DefaultN) =>
        /\ natural_numbers = <<1, 2, 3, 4, 5, 6, 7, 8>>
        /\ SubSeq(out, 5, Len(out) - 2) =
               <<"1: 1", "2: 2", "3: 3", "4: 4", "5: 5", "6: 6", "7: 7", "8: 8">>
        /\ out[Len(out)] = "Sum of first 8 natural numbers: 36"

C5_Witness == pc = "done" /\ n = DefaultN /\ Len(out) = 14

\* C6: for every N <= 0 the generator returns the empty sequence and reaches
\* no error outcome; for N = 0 the report has no enumerated lines and a sum
\* of 0.
C6_NonPositiveIsEmpty ==
    /\ n <= 0 => pc # "error"
    /\ (n <= 0 /\ Generated) => natural_numbers = <<>>
    /\ (n = 0 /\ pc = "done") =>
          /\ total = 0
          /\ out = <<"The first 0 natural numbers are:", "[]", "",
                     "Formatted output:", "",
                     "Sum of first 0 natural numbers: 0">>

C6_Witness == pc = "done" /\ n = 0 /\ it = 0 /\ Len(out) = 6

\* C7: every run terminates: it always eventually reaches the finished state
\* with exit status 0, after emitting the sum line, and no error or failure
\* state is reachable.
C7_Terminates ==
    /\ [](pc # "error")
    /\ [](pc = "done" => exit_status = Exited(0))
    /\ <>(/\ pc = "done"
          /\ exit_status = Exited(0)
          /\ out[Len(out)] = "Sum of first " \o int_str(n)
                 \o " natural numbers: " \o int_str(total))

C7_Witness == pc = "done" /\ exit_status = Exited(0) /\ n = DefaultN /\ total = 36

\* C9: once the sequence has been generated no reporting step changes N or
\* the sequence, and the output only grows.
C9_Frame ==
    [][pc # "generate" =>
          /\ n' = n
          /\ natural_numbers' = natural_numbers
          /\ IsPrefix(out, out')]_vars

C9_Witness == pc = "return" /\ it >= 2 /\ Len(out) = 6 + it

\* C10: for every integer N, negative values included, the sum of the
\* generated sequence is M*(M+1)/2 with M = max(N, 0); it is 0 for every
\* N <= 0, so N*(N+1)/2 is not the result for N <= -2.
C10_SumClampedClosedForm ==
    Summed =>
        /\ total = (Max(n, 0) * (Max(n, 0) + 1)) \div 2
        /\ (n <= 0 => total = 0)
        /\ (n <= 0 - 2 => total # (n * (n + 1)) \div 2)

C10_Witness == pc = "done" /\ n <= 0 - 2 /\ total = 0

====
